---- MODULE Spec2Model ----
(***************************************************************************)
(* State-machine model of the j26-notifications service (src/src/app).     *)
(*                                                                         *)
(* The durable state is the four jsonb tables of the service (channels,    *)
(* subscriptions, tokens, notifications), each a function from the primary *)
(* key `id` to the stored document.  Every request handler is a coroutine: *)
(* it can be interleaved with other handlers only at an `await` of a       *)
(* database or push call, and every database call is one SQL statement.    *)
(* A handler is therefore modelled as one action per awaited call, and     *)
(* `req[r]` holds the handler's local variables and its position.          *)
(*                                                                         *)
(* A Python list of device tokens is modelled up to the order of its       *)
(* elements, as a bag (token -> number of occurrences): no handler reads a *)
(* position of such a list, and list(set) and an SQL SELECT without ORDER  *)
(* BY leave the order unspecified.                                         *)
(***************************************************************************)
EXTENDS Naturals, Sequences, FiniteSets, Bags, TLC

VARIABLES
    channels,       \* table channels:       id -> Channel document
    subscriptions,  \* table subscriptions:  id -> Subscription document
    tokens,         \* table tokens:         id -> Tokens document
    notifications,  \* table notifications:  id -> Notification document
    pushes,         \* history of the calls made to firebase_send
    req,            \* request slot -> the handler running in it (locals, position)
    now,            \* the wall clock read by datetime.now
    nextId,         \* number of uuid1 values handed out so far
    registered      \* history: token id -> every device token a register call carried

vars == <<channels, subscriptions, tokens, notifications, pushes, req, now, nextId, registered>>

----------------------------------------------------------------------------
(* Bounds of the model *)

MaxReq == 2          \* request slots: handlers that can be in flight together
MaxPayload == 2      \* longest device_tokens list a register call carries
MaxTime == 2         \* last clock value
MaxTargets == 2      \* longest channel_ids list of a send request
MaxNotifications == 2  \* Notification objects built during one behaviour
MaxLimit == 3        \* largest limit a history request asks for

Reqs == 1..MaxReq

(* Input alphabets *)
Users == {"u1", "u2"}
DeviceTokens == {"a", "b", "c"}
DEFAULT_TENANT == "jamboree26"
TenantRows == {DEFAULT_TENANT, "t2"}     \* rows of table tenants
ChannelIds == {"x", "y", "z"}

(* HTTP status codes the handlers answer with *)
HTTP_200_OK == 200
HTTP_201_CREATED == 201
HTTP_202_ACCEPTED == 202
HTTP_204_NO_CONTENT == 204
HTTP_400_BAD_REQUEST == 400
HTTP_403_FORBIDDEN == 403
HTTP_404_NOT_FOUND == 404
HTTP_409_CONFLICT == 409
HTTP_428_PRECONDITION_REQUIRED == 428
HTTP_500_INTERNAL_SERVER_ERROR == 500

----------------------------------------------------------------------------
(* Generic helpers *)

Range(s) == {s[i] : i \in 1..Len(s)}

SeqsUpTo(S, n) == UNION {[1..k -> S] : k \in 0..n}

\* The list s up to order: how many times it holds each of its elements.
ListToBag(s) == [t \in Range(s) |-> Cardinality({i \in 1..Len(s) : s[i] = t})]

\* Python set(l) of a list l.
set(l) == BagToSet(l)

\* Python list(S) of a set S: every element once.
list(S) == SetToBag(S)

\* Storing document d under primary key k (an upsert replaces the document).
Put(table, k, d) == [i \in DOMAIN table \cup {k} |-> IF i = k THEN d ELSE table[i]]

Remove(table, k) == [i \in DOMAIN table \ {k} |-> table[i]]

EmptyTable == [i \in {} |-> i]

Idle == [op |-> "none", pc |-> "idle"]

\* The handler of slot r has returned (or raised) with this status code.
Done(r, code) == [op |-> req[r].op, pc |-> "done", result |-> code]

InFlight(r) == req[r].pc \notin {"idle", "done"}

Quiescent == \A r \in Reqs : ~InFlight(r)

----------------------------------------------------------------------------
(* tenants.py *)

get_tenant_id(tenant_id) == tenant_id \in TenantRows

is_tenant_admin(tenant_id, user_id) == TRUE

----------------------------------------------------------------------------
(* subscriptions.py: the token registry *)

TokenId(uid, tenant) == uid \o ":" \o tenant

Tokens(id, tenant, device_tokens) ==
    [id |-> id, tenant_id |-> tenant, device_tokens |-> device_tokens, updated_at |-> now]

\* POST /tenants/{tenant}/tokens: the dependencies and the handler up to its
\* first database call.
save_user_token_call(r, tenant, uid, payload) ==
    /\ ~InFlight(r)
    /\ IF ~get_tenant_id(tenant)
       THEN /\ req' = [req EXCEPT ![r] = [op |-> "register", pc |-> "done",
                                            result |-> HTTP_404_NOT_FOUND]]
            /\ UNCHANGED registered
       ELSE /\ req' = [req EXCEPT ![r] = [op |-> "register", pc |-> "fetchrow",
                                            payload |-> payload,
                                            data |-> Tokens(TokenId(uid, tenant), tenant, payload)]]
            /\ registered' = [registered EXCEPT ![TokenId(uid, tenant)] = @ \cup set(payload)]
    /\ UNCHANGED <<channels, subscriptions, tokens, notifications, pushes, now, nextId>>

\* A merge that keeps only the incoming tokens.
MergedTokensIncomingOnly(existing_tokens, new_tokens) == list(new_tokens)

\* The merged list the handler stores when a row exists.
MergedTokens(existing_tokens, new_tokens) == list(existing_tokens \cup new_tokens)

\* The same step without the early return on a subset.
save_user_token_fetchrow_always_writes(r) ==
    /\ req[r].op = "register" /\ req[r].pc = "fetchrow"
    /\ LET token_id == req[r].data.id
       IN req' = [req EXCEPT ![r].pc = "execute",
                             ![r].data.device_tokens =
                                 IF token_id \in DOMAIN tokens
                                 THEN MergedTokens(set(tokens[token_id].device_tokens),
                                                   set(req[r].payload))
                                 ELSE @]
    /\ UNCHANGED <<channels, subscriptions, tokens, notifications, pushes, now, nextId, registered>>

\* row = await db_fetchrow(...), and the merge computed from it.  Of the row
\* it read, the early return keeps the updated_at in the frame.
save_user_token_fetchrow(r) ==
    /\ req[r].op = "register" /\ req[r].pc = "fetchrow"
    /\ LET token_id == req[r].data.id
           new_tokens == set(req[r].payload)
       IN IF token_id \in DOMAIN tokens
          THEN LET existing_tokens == set(tokens[token_id].device_tokens)
               IN IF new_tokens \subseteq existing_tokens
                  THEN req' = [req EXCEPT ![r] = [op |-> "register", pc |-> "done",
                                                  result |-> HTTP_201_CREATED,
                                                  row |-> [updated_at |->
                                                              tokens[token_id].updated_at]]]
                  ELSE req' = [req EXCEPT ![r].pc = "execute",
                                          ![r].data.device_tokens =
                                              MergedTokens(existing_tokens, new_tokens)]
          ELSE req' = [req EXCEPT ![r].pc = "execute"]
    /\ UNCHANGED <<channels, subscriptions, tokens, notifications, pushes, now, nextId, registered>>

\* await db_execute("INSERT INTO tokens ... ON CONFLICT (id) DO UPDATE ...")
save_user_token_execute(r) ==
    /\ req[r].op = "register" /\ req[r].pc = "execute"
    /\ tokens' = Put(tokens, req[r].data.id, req[r].data)
    /\ req' = [req EXCEPT ![r] = Done(r, HTTP_201_CREATED)]
    /\ UNCHANGED <<channels, subscriptions, notifications, pushes, now, nextId, registered>>

----------------------------------------------------------------------------
(* subscriptions.py: the subscription ledger *)

\* A subscription id without the tenant.
SubscriptionIdNoTenant(uid, channel, tenant) == uid \o "@" \o channel

SubscriptionId(uid, channel, tenant) == uid \o "@" \o channel \o ":" \o tenant

Subscription(id, tenant, channel, uid) ==
    [id |-> id, tenant_id |-> tenant, channel_id |-> channel, user_id |-> uid,
     created_at |-> now]

\* INSERT ... ON CONFLICT (id) DO NOTHING
InsertDoNothing(table, k, d) == IF k \in DOMAIN table THEN table ELSE Put(table, k, d)

\* The same SELECT without the tenant in its WHERE clause.
SelectSubscriptionAnyTenant(table, tenant, channel, uid) ==
    {k \in DOMAIN table : /\ table[k].channel_id = channel
                          /\ table[k].user_id = uid}

\* SELECT data FROM subscriptions WHERE tenant_id = $1 AND channel_id = $2 AND user_id = $3
SelectSubscription(table, tenant, channel, uid) ==
    {k \in DOMAIN table : /\ table[k].tenant_id = tenant
                          /\ table[k].channel_id = channel
                          /\ table[k].user_id = uid}

\* POST /tenants/{tenant}/channels/{channel}/subscriptions: the tenant dependency.
subscribe_to_channel_call(r, tenant, channel, uid) ==
    /\ ~InFlight(r)
    /\ req' = [req EXCEPT ![r] =
                  IF ~get_tenant_id(tenant)
                  THEN [op |-> "subscribe", pc |-> "done", result |-> HTTP_404_NOT_FOUND]
                  ELSE [op |-> "subscribe", pc |-> "get_channel_id", tenant |-> tenant,
                        channel |-> channel, user |-> uid]]
    /\ UNCHANGED <<channels, subscriptions, tokens, notifications, pushes, now, nextId, registered>>

\* The get_channel_id dependency, then the handler up to its database call.
subscribe_to_channel_get_channel_id(r) ==
    /\ req[r].op = "subscribe" /\ req[r].pc = "get_channel_id"
    /\ req' = [req EXCEPT ![r] =
                  IF req[r].channel \notin DOMAIN channels
                  THEN Done(r, HTTP_404_NOT_FOUND)
                  ELSE [op |-> "subscribe", pc |-> "execute",
                        data |-> Subscription(SubscriptionId(req[r].user, req[r].channel, req[r].tenant),
                                              req[r].tenant, req[r].channel, req[r].user)]]
    /\ UNCHANGED <<channels, subscriptions, tokens, notifications, pushes, now, nextId, registered>>

\* await db_execute("INSERT INTO subscriptions ... ON CONFLICT (id) DO NOTHING"); return data
subscribe_to_channel_execute(r) ==
    /\ req[r].op = "subscribe" /\ req[r].pc = "execute"
    /\ subscriptions' = InsertDoNothing(subscriptions, req[r].data.id, req[r].data)
    /\ req' = [req EXCEPT ![r] = [op |-> "subscribe", pc |-> "done",
                                   result |-> HTTP_201_CREATED, returned |-> req[r].data]]
    /\ UNCHANGED <<channels, tokens, notifications, pushes, now, nextId, registered>>

\* DELETE /tenants/{tenant}/channels/{channel}/subscriptions: the tenant dependency.
unsubscribe_from_channel_call(r, tenant, channel, uid) ==
    /\ ~InFlight(r)
    /\ req' = [req EXCEPT ![r] =
                  IF ~get_tenant_id(tenant)
                  THEN [op |-> "unsubscribe", pc |-> "done", result |-> HTTP_404_NOT_FOUND]
                  ELSE [op |-> "unsubscribe", pc |-> "get_channel_id", tenant |-> tenant,
                        channel |-> channel, user |-> uid]]
    /\ UNCHANGED <<channels, subscriptions, tokens, notifications, pushes, now, nextId, registered>>

\* The get_channel_id dependency.
unsubscribe_from_channel_get_channel_id(r) ==
    /\ req[r].op = "unsubscribe" /\ req[r].pc = "get_channel_id"
    /\ req' = [req EXCEPT ![r] =
                  IF req[r].channel \notin DOMAIN channels
                  THEN Done(r, HTTP_404_NOT_FOUND)
                  ELSE [req[r] EXCEPT !.pc = "fetchrow"]]
    /\ UNCHANGED <<channels, subscriptions, tokens, notifications, pushes, now, nextId, registered>>

\* row = await db_fetchrow(...)
unsubscribe_from_channel_fetchrow(r) ==
    /\ req[r].op = "unsubscribe" /\ req[r].pc = "fetchrow"
    /\ LET rows == SelectSubscription(subscriptions, req[r].tenant, req[r].channel, req[r].user)
       IN IF rows = {}
          THEN req' = [req EXCEPT ![r] = Done(r, HTTP_404_NOT_FOUND)]
          ELSE \E k \in rows :
                  req' = [req EXCEPT ![r] = [op |-> "unsubscribe", pc |-> "execute",
                                             row |-> subscriptions[k]]]
    /\ UNCHANGED <<channels, subscriptions, tokens, notifications, pushes, now, nextId, registered>>

\* await db_execute("DELETE FROM subscriptions WHERE id=$1", row["data"]["id"])
unsubscribe_from_channel_execute(r) ==
    /\ req[r].op = "unsubscribe" /\ req[r].pc = "execute"
    /\ subscriptions' = Remove(subscriptions, req[r].row.id)
    /\ req' = [req EXCEPT ![r] = Done(r, HTTP_204_NO_CONTENT)]
    /\ UNCHANGED <<channels, tokens, notifications, pushes, now, nextId, registered>>

----------------------------------------------------------------------------
(* channels.py: the channel directory *)

Channel(id, tenant, parent_id, is_private) ==
    [id |-> id, tenant_id |-> tenant, parent_id |-> parent_id, is_private |-> is_private,
     updated_at |-> now]

\* The ChannelCreate payloads: an id, an optional parent ("" is None) and the
\* private flag.
ChannelCreate(ids, parents, privates) ==
    [id : ids, parent_id : parents, is_private : privates]

\* POST /tenants/{tenant}/channels: the dependencies and the admin check.
create_channel_call(r, tenant, uid, payload) ==
    /\ ~InFlight(r)
    /\ req' = [req EXCEPT ![r] =
                  IF ~get_tenant_id(tenant)
                  THEN [op |-> "create", pc |-> "done", result |-> HTTP_404_NOT_FOUND]
                  ELSE IF ~is_tenant_admin(tenant, uid)
                  THEN [op |-> "create", pc |-> "done", result |-> HTTP_403_FORBIDDEN]
                  ELSE [op |-> "create", pc |-> "fetch_channel", tenant |-> tenant,
                        payload |-> payload]]
    /\ UNCHANGED <<channels, subscriptions, tokens, notifications, pushes, now, nextId, registered>>

\* data = payload.model_dump(); data.update({"tenant_id": tenant, ...})
ChannelData(payload, tenant) ==
    Channel(payload.id, tenant, payload.parent_id, payload.is_private)

\* channel = await db_fetchrow(...): the id must be free.
create_channel_fetch_channel(r) ==
    /\ req[r].op = "create" /\ req[r].pc = "fetch_channel"
    /\ req' = [req EXCEPT ![r] =
                  IF req[r].payload.id \in DOMAIN channels
                  THEN Done(r, HTTP_409_CONFLICT)
                  ELSE IF req[r].payload.parent_id # ""
                  THEN [req[r] EXCEPT !.pc = "fetch_parent"]
                  ELSE [op |-> "create", pc |-> "execute",
                        data |-> ChannelData(req[r].payload, req[r].tenant)]]
    /\ UNCHANGED <<channels, subscriptions, tokens, notifications, pushes, now, nextId, registered>>

\* parent_channel = await db_fetchrow(...): the parent must exist.
create_channel_fetch_parent(r) ==
    /\ req[r].op = "create" /\ req[r].pc = "fetch_parent"
    /\ req' = [req EXCEPT ![r] =
                  IF req[r].payload.parent_id \notin DOMAIN channels
                  THEN Done(r, HTTP_404_NOT_FOUND)
                  ELSE [op |-> "create", pc |-> "execute",
                        data |-> ChannelData(req[r].payload, req[r].tenant)]]
    /\ UNCHANGED <<channels, subscriptions, tokens, notifications, pushes, now, nextId, registered>>

\* await db_execute("INSERT INTO channels (id, data) VALUES ($1, $2)"): the
\* primary key rejects a second row with the id (UniqueViolationError, which
\* no handler catches).
create_channel_execute(r) ==
    /\ req[r].op = "create" /\ req[r].pc = "execute"
    /\ IF req[r].data.id \in DOMAIN channels
       THEN /\ req' = [req EXCEPT ![r] = Done(r, HTTP_500_INTERNAL_SERVER_ERROR)]
            /\ UNCHANGED channels
       ELSE /\ channels' = Put(channels, req[r].data.id, req[r].data)
            /\ req' = [req EXCEPT ![r] = Done(r, HTTP_201_CREATED)]
    /\ UNCHANGED <<subscriptions, tokens, notifications, pushes, now, nextId, registered>>

\* GET /tenants/{tenant}/channels?include_private=...: the tenant dependency.
list_channels_call(r, tenant, include_private) ==
    /\ ~InFlight(r)
    /\ req' = [req EXCEPT ![r] =
                  IF ~get_tenant_id(tenant)
                  THEN [op |-> "list_channels", pc |-> "done", result |-> HTTP_404_NOT_FOUND]
                  ELSE [op |-> "list_channels", pc |-> "fetch", tenant |-> tenant,
                        include_private |-> include_private]]
    /\ UNCHANGED <<channels, subscriptions, tokens, notifications, pushes, now, nextId, registered>>

\* channels = await db_fetch("SELECT data FROM channels WHERE tenant_id = $1");
\* return the rows (in the order the statement gives, which is unspecified:
\* the returned rows are modelled as a set).
list_channels_fetch(r) ==
    /\ req[r].op = "list_channels" /\ req[r].pc = "fetch"
    /\ req' = [req EXCEPT ![r] =
                  [op |-> "list_channels", pc |-> "done", result |-> HTTP_200_OK,
                   returned |-> {channels[c] : c \in {c \in DOMAIN channels :
                                                        channels[c].tenant_id = req[r].tenant}}]]
    /\ UNCHANGED <<channels, subscriptions, tokens, notifications, pushes, now, nextId, registered>>

\* DELETE /tenants/{tenant}/channels/{channel_id}: the dependencies.
delete_channel_call(r, tenant, channel_id) ==
    /\ ~InFlight(r)
    /\ req' = [req EXCEPT ![r] =
                  IF ~get_tenant_id(tenant)
                  THEN [op |-> "delete", pc |-> "done", result |-> HTTP_404_NOT_FOUND]
                  ELSE [op |-> "delete", pc |-> "fetchrow", channel_id |-> channel_id]]
    /\ UNCHANGED <<channels, subscriptions, tokens, notifications, pushes, now, nextId, registered>>

\* channel = await db_fetchrow(...)
delete_channel_fetchrow(r) ==
    /\ req[r].op = "delete" /\ req[r].pc = "fetchrow"
    /\ req' = [req EXCEPT ![r] =
                  IF req[r].channel_id \notin DOMAIN channels
                  THEN Done(r, HTTP_404_NOT_FOUND)
                  ELSE [req[r] EXCEPT !.pc = "execute"]]
    /\ UNCHANGED <<channels, subscriptions, tokens, notifications, pushes, now, nextId, registered>>

\* A delete that also removes the subscriptions to the channel.
delete_channel_execute_cascade(r) ==
    /\ req[r].op = "delete" /\ req[r].pc = "execute"
    /\ channels' = Remove(channels, req[r].channel_id)
    /\ subscriptions' = [k \in {k \in DOMAIN subscriptions :
                                   subscriptions[k].channel_id # req[r].channel_id} |->
                            subscriptions[k]]
    /\ req' = [req EXCEPT ![r] = Done(r, HTTP_204_NO_CONTENT)]
    /\ UNCHANGED <<tokens, notifications, pushes, now, nextId, registered>>

\* await db_execute("DELETE FROM channels WHERE id=$1", channel_id)
delete_channel_execute(r) ==
    /\ req[r].op = "delete" /\ req[r].pc = "execute"
    /\ channels' = Remove(channels, req[r].channel_id)
    /\ req' = [req EXCEPT ![r] = Done(r, HTTP_204_NO_CONTENT)]
    /\ UNCHANGED <<subscriptions, tokens, notifications, pushes, now, nextId, registered>>

----------------------------------------------------------------------------
(* firebase.py: the push capability *)

\* What messaging.send_each_for_multicast can do with a batch: deliver it,
\* answer with per-token failures (the response, which firebase_send drops),
\* or raise (the provider cannot be reached, the batch is refused).
PushOutcomes == {"delivered", "rejected", "raised"}

\* firebase_send(tokens, notification): nothing for an empty batch; otherwise
\* the multicast call, recorded in the history of push invocations.
firebase_send(msg_tokens, msg, outcome) ==
    pushes' = IF msg_tokens = EmptyBag
              THEN pushes
              ELSE Append(pushes, [msg |-> msg.id, tokens |-> msg_tokens, outcome |-> outcome])

----------------------------------------------------------------------------
(* notifications.py: the fan-out dispatcher *)

\* Notification(...): id is a fresh uuid1, sent_at the clock.
Notification(tenant, channel, sent_by) ==
    [id |-> nextId + 1, tenant_id |-> tenant, channel_id |-> channel, sent_by |-> sent_by,
     sent_at |-> now]

\* The NotificationCreate payloads.
NotificationCreate(channel_lists, flags) ==
    [channel_ids : channel_lists, include_child_channels : flags]

\* The Notification objects a request will build fit the model's supply of ids.
IdsLeft(n) == nextId + n <= MaxNotifications

\* POST /tenants/{tenant}/notifications: the dependencies, the checks, and the
\* first iteration of the loop up to the database call of send_notification.
send_notifications_call(r, tenant, uid, payload) ==
    /\ ~InFlight(r)
    /\ IdsLeft(Len(payload.channel_ids))
    /\ IF ~get_tenant_id(tenant)
       THEN /\ req' = [req EXCEPT ![r] = [op |-> "send", pc |-> "done", payload |-> payload,
                                            built |-> <<>>, result |-> HTTP_404_NOT_FOUND]]
            /\ UNCHANGED nextId
       ELSE IF payload.channel_ids = <<>>
       THEN /\ req' = [req EXCEPT ![r] = [op |-> "send", pc |-> "done", payload |-> payload,
                                            built |-> <<>>, result |-> HTTP_400_BAD_REQUEST]]
            /\ UNCHANGED nextId
       ELSE IF ~is_tenant_admin(tenant, uid)
       THEN /\ req' = [req EXCEPT ![r] = [op |-> "send", pc |-> "done", payload |-> payload,
                                            built |-> <<>>, result |-> HTTP_403_FORBIDDEN]]
            /\ UNCHANGED nextId
       ELSE LET msg == Notification(tenant, payload.channel_ids[1], uid)
            IN /\ req' = [req EXCEPT ![r] =
                             [op |-> "send", pc |-> "fetch_subscriptions", tenant |-> tenant,
                              user |-> uid, payload |-> payload, i |-> 1,
                              channel |-> payload.channel_ids[1], msg |-> msg, save |-> TRUE,
                              user_id_list |-> {}, msg_tokens |-> EmptyBag,
                              built |-> <<msg>>, result |-> 0]]
               /\ nextId' = nextId + 1
    /\ UNCHANGED <<channels, subscriptions, tokens, notifications, pushes, now, registered>>

\* send_notification has returned to its caller.  In heartbeats_loop: the
\* next iteration, up to its sleep.  In send_notifications: the next
\* iteration of the loop up to its database call, or return asdict(msg).
send_notification_return(r) ==
    LET f == req[r]
    IN IF f.op = "heartbeat"
       THEN /\ req' = [req EXCEPT ![r].pc = "sleep"]
            /\ UNCHANGED nextId
       ELSE
       IF f.i < Len(f.payload.channel_ids)
       THEN LET msg == Notification(f.tenant, f.payload.channel_ids[f.i + 1], f.user)
            IN /\ req' = [req EXCEPT ![r] =
                             [f EXCEPT !.pc = "fetch_subscriptions", !.i = f.i + 1,
                                       !.channel = f.payload.channel_ids[f.i + 1],
                                       !.msg = msg, !.user_id_list = {},
                                       !.msg_tokens = EmptyBag, !.built = Append(@, msg)]]
               /\ nextId' = nextId + 1
       ELSE /\ req' = [req EXCEPT ![r] = [f EXCEPT !.pc = "done", !.result = HTTP_202_ACCEPTED]]
            /\ UNCHANGED nextId

\* get_subscription_tokens: rows = await db_fetch("SELECT data FROM subscriptions ...")
send_notification_fetch_subscriptions(r) ==
    /\ req[r].op \in {"send", "heartbeat"} /\ req[r].pc = "fetch_subscriptions"
    /\ LET rows == {k \in DOMAIN subscriptions :
                       /\ subscriptions[k].tenant_id = req[r].tenant
                       /\ subscriptions[k].channel_id = req[r].channel}
       IN IF rows = {}
          THEN send_notification_return(r)
          ELSE /\ req' = [req EXCEPT ![r].pc = "fetch_tokens",
                                     ![r].user_id_list =
                                         {TokenId(subscriptions[k].user_id, req[r].tenant) : k \in rows}]
               /\ UNCHANGED nextId
    /\ UNCHANGED <<channels, subscriptions, tokens, notifications, pushes, now, registered>>

\* [t for d in rows for t in d["data"]["device_tokens"]]: the stored lists
\* of the rows, one after the other.
RECURSIVE Concatenated(_, _)
Concatenated(table, ids) ==
    IF ids = {} THEN EmptyBag
    ELSE LET k == CHOOSE k \in ids : TRUE
         IN table[k].device_tokens (+) Concatenated(table, ids \ {k})

\* get_subscription_tokens: rows = await db_fetch("SELECT data FROM tokens WHERE id = ANY(...)")
send_notification_fetch_tokens(r) ==
    /\ req[r].op \in {"send", "heartbeat"} /\ req[r].pc = "fetch_tokens"
    /\ LET msg_tokens == Concatenated(tokens, req[r].user_id_list \cap DOMAIN tokens)
       IN IF msg_tokens = EmptyBag
          THEN send_notification_return(r)
          ELSE /\ req' = [req EXCEPT ![r].pc = "firebase_send", ![r].msg_tokens = msg_tokens]
               /\ UNCHANGED nextId
    /\ UNCHANGED <<channels, subscriptions, tokens, notifications, pushes, now, registered>>

\* The same step of a send_notification that ignores its save argument.
send_notification_firebase_send_always_saves(r) ==
    /\ req[r].op \in {"send", "heartbeat"} /\ req[r].pc = "firebase_send"
    /\ \E outcome \in PushOutcomes :
          /\ firebase_send(req[r].msg_tokens, req[r].msg, outcome)
          /\ req' = [req EXCEPT ![r].pc = IF outcome = "raised" THEN "done" ELSE "execute",
                                ![r].result = IF outcome = "raised"
                                              THEN HTTP_500_INTERNAL_SERVER_ERROR ELSE @]
    /\ UNCHANGED <<channels, subscriptions, tokens, notifications, now, nextId, registered>>

\* await firebase_send(msg_tokens, msg): an exception it raises is caught
\* nowhere and ends the request, or the heartbeat task.
send_notification_firebase_send(r) ==
    /\ req[r].op \in {"send", "heartbeat"} /\ req[r].pc = "firebase_send"
    /\ \E outcome \in PushOutcomes :
          /\ firebase_send(req[r].msg_tokens, req[r].msg, outcome)
          /\ IF outcome = "raised"
             THEN /\ req' = [req EXCEPT ![r].pc = "done",
                                        ![r].result = HTTP_500_INTERNAL_SERVER_ERROR]
                  /\ UNCHANGED nextId
             ELSE IF req[r].save
             THEN /\ req' = [req EXCEPT ![r].pc = "execute"]
                  /\ UNCHANGED nextId
             ELSE send_notification_return(r)
    /\ UNCHANGED <<channels, subscriptions, tokens, notifications, now, registered>>

\* send_notification_execute with an INSERT that first empties the table.
send_notification_execute_truncates(r) ==
    /\ req[r].op \in {"send", "heartbeat"} /\ req[r].pc = "execute"
    /\ notifications' = Put(EmptyTable, req[r].msg.id, req[r].msg)
    /\ send_notification_return(r)
    /\ UNCHANGED <<channels, subscriptions, tokens, pushes, now, registered>>

\* await db_execute("INSERT INTO notifications (id, data) VALUES ($1, $2)")
send_notification_execute(r) ==
    /\ req[r].op \in {"send", "heartbeat"} /\ req[r].pc = "execute"
    /\ notifications' = Put(notifications, req[r].msg.id, req[r].msg)
    /\ send_notification_return(r)
    /\ UNCHANGED <<channels, subscriptions, tokens, pushes, now, registered>>

----------------------------------------------------------------------------
(* heartbeats.py: the heartbeat loop, a task of its own *)

HeartbeatTask == 0

\* asyncio.create_task(heartbeats_loop()): the task, at its first sleep.
heartbeats_init ==
    [op |-> "heartbeat", pc |-> "sleep", tenant |-> DEFAULT_TENANT, channel |-> "heartbeat",
     save |-> FALSE, user_id_list |-> {}, msg_tokens |-> EmptyBag, built |-> <<>>, result |-> 0]

\* The sleep is over: msg = Notification(...), and send_notification(...,
\* save=False) up to its first database call.
heartbeats_loop ==
    /\ req[HeartbeatTask].op = "heartbeat" /\ req[HeartbeatTask].pc = "sleep"
    /\ IdsLeft(1)
    /\ LET msg == Notification(DEFAULT_TENANT, "heartbeat", "Heartbeat loop")
       IN req' = [req EXCEPT ![HeartbeatTask] =
                     [op |-> "heartbeat", pc |-> "fetch_subscriptions",
                      tenant |-> DEFAULT_TENANT, channel |-> "heartbeat", msg |-> msg,
                      save |-> FALSE, user_id_list |-> {}, msg_tokens |-> EmptyBag,
                      built |-> Append(req[HeartbeatTask].built, msg), result |-> 0]]
    /\ nextId' = nextId + 1
    /\ UNCHANGED <<channels, subscriptions, tokens, notifications, pushes, now, registered>>

----------------------------------------------------------------------------
(* notifications.py: direct sends *)

\* The DirectNotificationCreate payloads.
DirectNotificationCreate(user_ids) == [user_id : user_ids]

\* POST /tenants/{tenant}/notifications/direct: the dependencies and the checks.
send_direct_notifications_call(r, tenant, uid, payload) ==
    /\ ~InFlight(r)
    /\ IdsLeft(1)
    /\ req' = [req EXCEPT ![r] =
                  IF ~get_tenant_id(tenant)
                  THEN [op |-> "direct", pc |-> "done", payload |-> payload, built |-> <<>>,
                        result |-> HTTP_404_NOT_FOUND]
                  ELSE IF payload.user_id = ""
                  THEN [op |-> "direct", pc |-> "done", payload |-> payload, built |-> <<>>,
                        result |-> HTTP_400_BAD_REQUEST]
                  ELSE IF ~is_tenant_admin(tenant, uid)
                  THEN [op |-> "direct", pc |-> "done", payload |-> payload, built |-> <<>>,
                        result |-> HTTP_403_FORBIDDEN]
                  ELSE [op |-> "direct", pc |-> "fetchrow", tenant |-> tenant, user |-> uid,
                        payload |-> payload, user_tokens |-> EmptyBag, built |-> <<>>,
                        result |-> 0]]
    /\ UNCHANGED <<channels, subscriptions, tokens, notifications, pushes, now, nextId, registered>>

\* get_user_tokens(tenant, user_id): the stored list, or [] without a row.
get_user_tokens(tenant, user_id) ==
    IF TokenId(user_id, tenant) \in DOMAIN tokens
    THEN tokens[TokenId(user_id, tenant)].device_tokens
    ELSE EmptyBag

\* The same step without the check of user_tokens.
send_direct_notifications_fetchrow_unchecked(r) ==
    /\ req[r].op = "direct" /\ req[r].pc = "fetchrow"
    /\ LET msg == Notification(req[r].tenant, req[r].payload.user_id, req[r].user)
       IN /\ req' = [req EXCEPT ![r] =
                        [op |-> "direct", pc |-> "firebase_send", payload |-> req[r].payload,
                         user_tokens |-> get_user_tokens(req[r].tenant, req[r].payload.user_id),
                         msg |-> msg, built |-> <<msg>>, result |-> 0]]
          /\ nextId' = nextId + 1
    /\ UNCHANGED <<channels, subscriptions, tokens, notifications, pushes, now, registered>>

\* user_tokens = await get_user_tokens(...), the 428 check and msg = Notification(...)
send_direct_notifications_fetchrow(r) ==
    /\ req[r].op = "direct" /\ req[r].pc = "fetchrow"
    /\ LET user_tokens == get_user_tokens(req[r].tenant, req[r].payload.user_id)
       IN IF user_tokens = EmptyBag
          THEN /\ req' = [req EXCEPT ![r].pc = "done",
                                     ![r].result = HTTP_428_PRECONDITION_REQUIRED]
               /\ UNCHANGED nextId
          ELSE LET msg == Notification(req[r].tenant, req[r].payload.user_id, req[r].user)
               IN /\ req' = [req EXCEPT ![r] =
                                [op |-> "direct", pc |-> "firebase_send",
                                 payload |-> req[r].payload, user_tokens |-> user_tokens,
                                 msg |-> msg, built |-> <<msg>>, result |-> 0]]
                  /\ nextId' = nextId + 1
    /\ UNCHANGED <<channels, subscriptions, tokens, notifications, pushes, now, registered>>

\* await firebase_send(user_tokens, msg)
send_direct_notifications_firebase_send(r) ==
    /\ req[r].op = "direct" /\ req[r].pc = "firebase_send"
    /\ \E outcome \in PushOutcomes :
          /\ firebase_send(req[r].user_tokens, req[r].msg, outcome)
          /\ req' = [req EXCEPT ![r] =
                        IF outcome = "raised"
                        THEN [req[r] EXCEPT !.pc = "done", !.result = HTTP_500_INTERNAL_SERVER_ERROR]
                        ELSE [req[r] EXCEPT !.pc = "execute"]]
    /\ UNCHANGED <<channels, subscriptions, tokens, notifications, now, nextId, registered>>

\* await db_execute("INSERT INTO notifications ..."); return asdict(msg)
send_direct_notifications_execute(r) ==
    /\ req[r].op = "direct" /\ req[r].pc = "execute"
    /\ notifications' = Put(notifications, req[r].msg.id, req[r].msg)
    /\ req' = [req EXCEPT ![r].pc = "done", ![r].result = HTTP_202_ACCEPTED]
    /\ UNCHANGED <<channels, subscriptions, tokens, pushes, now, nextId, registered>>

----------------------------------------------------------------------------
(* notifications.py: the history reader *)

\* The stored records of the tenant addressed to one of the channel ids.
MatchingNotifications(table, tenant, channel_ids) ==
    {k \in DOMAIN table : /\ table[k].tenant_id = tenant
                          /\ table[k].channel_id \in Range(channel_ids)}

Min(a, b) == IF a <= b THEN a ELSE b

\* The same SELECT with ORDER BY ... ASC.
SelectNotificationsOldestFirst(table, tenant, channel_ids, limit) ==
    LET matching == MatchingNotifications(table, tenant, channel_ids)
        n == Min(limit, Cardinality(matching))
    IN {[i \in 1..n |-> table[ks[i]]] :
           ks \in {ks \in [1..n -> matching] :
                      /\ \A i, j \in 1..n : i < j => ks[i] # ks[j]
                      /\ \A i, j \in 1..n : i < j => table[ks[i]].sent_at <= table[ks[j]].sent_at
                      /\ \A k \in matching \ Range(ks) :
                             \A i \in 1..n : table[k].sent_at >= table[ks[i]].sent_at}}

\* SELECT data FROM notifications WHERE tenant_id = $1 AND channel_id = ANY($2)
\* ORDER BY sent_at DESC LIMIT $3: the row lists the statement can return
\* (rows with equal sent_at come in any order).
SelectNotifications(table, tenant, channel_ids, limit) ==
    LET matching == MatchingNotifications(table, tenant, channel_ids)
        n == Min(limit, Cardinality(matching))
    IN {[i \in 1..n |-> table[ks[i]]] :
           ks \in {ks \in [1..n -> matching] :
                      /\ \A i, j \in 1..n : i < j => ks[i] # ks[j]
                      /\ \A i, j \in 1..n : i < j => table[ks[i]].sent_at >= table[ks[j]].sent_at
                      /\ \A k \in matching \ Range(ks) :
                             \A i \in 1..n : table[k].sent_at <= table[ks[i]].sent_at}}

\* GET /tenants/{tenant}/notifications?channel=...&limit=...: the tenant
\* dependency, and the handler up to its first database call.  No channel
\* parameter (None) and an empty one are both the empty list.
list_notifications_call(r, tenant, uid, channel_ids, limit) ==
    /\ ~InFlight(r)
    /\ req' = [req EXCEPT ![r] =
                  IF ~get_tenant_id(tenant)
                  THEN [op |-> "list", pc |-> "done", result |-> HTTP_404_NOT_FOUND]
                  ELSE [op |-> "list",
                        pc |-> IF channel_ids = <<>> THEN "fetch_subscriptions" ELSE "fetch",
                        tenant |-> tenant, user |-> uid, channel |-> channel_ids,
                        channel_ids |-> IF channel_ids = <<>> THEN <<>>
                                        ELSE Append(channel_ids, uid),
                        limit |-> limit, returned |-> <<>>, result |-> 0]]
    /\ UNCHANGED <<channels, subscriptions, tokens, notifications, pushes, now, nextId, registered>>

\* rows = await db_fetch("SELECT data FROM subscriptions WHERE tenant_id = $1
\* AND user_id = $2"), in some order, and channel_ids.append(uid)
list_notifications_fetch_subscriptions(r) ==
    /\ req[r].op = "list" /\ req[r].pc = "fetch_subscriptions"
    /\ LET rows == {k \in DOMAIN subscriptions :
                       /\ subscriptions[k].tenant_id = req[r].tenant
                       /\ subscriptions[k].user_id = req[r].user}
       IN \E order \in {o \in [1..Cardinality(rows) -> rows] :
                           \A i, j \in 1..Cardinality(rows) : i < j => o[i] # o[j]} :
             req' = [req EXCEPT ![r].pc = "fetch",
                                ![r].channel_ids =
                                    Append([i \in 1..Cardinality(rows) |->
                                               subscriptions[order[i]].channel_id],
                                           req[r].user)]
    /\ UNCHANGED <<channels, subscriptions, tokens, notifications, pushes, now, nextId, registered>>

\* rows = await db_fetch(query, tenant, channel_ids, limit); return the rows
list_notifications_fetch(r) ==
    /\ req[r].op = "list" /\ req[r].pc = "fetch"
    /\ \E rows \in SelectNotifications(notifications, req[r].tenant, req[r].channel_ids,
                                       req[r].limit) :
          req' = [req EXCEPT ![r].pc = "done", ![r].returned = rows,
                             ![r].result = HTTP_200_OK]
    /\ UNCHANGED <<channels, subscriptions, tokens, notifications, pushes, now, nextId, registered>>

----------------------------------------------------------------------------
\* datetime.now(timezone.utc) advances.
Tick ==
    /\ now < MaxTime
    /\ now' = now + 1
    /\ UNCHANGED <<channels, subscriptions, tokens, notifications, pushes, req, nextId, registered>>

----------------------------------------------------------------------------
(* The state after the lifespan start-up: channels_init has inserted the   *)
(* heartbeat channel, the other tables are empty.                          *)

channels_init == Put(EmptyTable, "heartbeat", Channel("heartbeat", DEFAULT_TENANT, "", FALSE))

TokenIds == {TokenId(u, t) : u \in Users, t \in TenantRows}

\* The device tokens stored for token id k, as a set.
StoredTokens(k) == IF k \in DOMAIN tokens THEN set(tokens[k].device_tokens) ELSE {}

Init ==
    /\ now = 0
    /\ channels = channels_init
    /\ subscriptions = EmptyTable
    /\ tokens = EmptyTable
    /\ notifications = EmptyTable
    /\ pushes = <<>>
    /\ req = [r \in Reqs |-> Idle]
    /\ nextId = 0
    /\ registered = [k \in TokenIds |-> {}]

----------------------------------------------------------------------------
(* Token registry under concurrent register calls. *)

RegisterPayloads == {ListToBag(l) : l \in SeqsUpTo(DeviceTokens, MaxPayload)}

RegisterSteps ==
    \/ \E r \in Reqs : save_user_token_fetchrow(r)
    \/ \E r \in Reqs : save_user_token_execute(r)

\* The racing calls carry at least one token each.
NextRegister ==
    \/ \E r \in Reqs, u \in Users, p \in RegisterPayloads \ {EmptyBag} :
          save_user_token_call(r, DEFAULT_TENANT, u, p)
    \/ RegisterSteps

SpecRegister == Init /\ [][NextRegister]_vars

\* The same handlers when every call starts after the previous one has returned.
NextRegisterSeq ==
    \/ \E r \in Reqs, u \in Users, p \in RegisterPayloads :
          Quiescent /\ save_user_token_call(r, DEFAULT_TENANT, u, p)
    \/ RegisterSteps

SpecRegisterSeq == Init /\ [][NextRegisterSeq]_vars

\* The sequential calls of one user while the clock advances.
NextRegisterClock ==
    \/ \E r \in Reqs, p \in RegisterPayloads :
          Quiescent /\ save_user_token_call(r, DEFAULT_TENANT, "u1", p)
    \/ RegisterSteps
    \/ Tick

SpecRegisterClock == Init /\ [][NextRegisterClock]_vars

----------------------------------------------------------------------------
(* Channel directory under concurrent create and delete calls. *)

ChannelSteps ==
    \/ \E r \in Reqs : create_channel_fetch_channel(r)
    \/ \E r \in Reqs : create_channel_fetch_parent(r)
    \/ \E r \in Reqs : create_channel_execute(r)
    \/ \E r \in Reqs : delete_channel_fetchrow(r)
    \/ \E r \in Reqs : delete_channel_execute(r)

TreeIds == {"x", "y"}

NextChannels ==
    \/ \E r \in Reqs, payload \in ChannelCreate(TreeIds, TreeIds \cup {""}, {FALSE}) :
          create_channel_call(r, DEFAULT_TENANT, "u1", payload)
    \/ \E r \in Reqs, c \in TreeIds : delete_channel_call(r, DEFAULT_TENANT, c)
    \/ ChannelSteps

SpecChannels == Init /\ [][NextChannels]_vars

----------------------------------------------------------------------------
(* Channel listing while public and private channels are created in both   *)
(* tenants.                                                                *)

NextListing ==
    \/ \E r \in Reqs, t \in TenantRows, payload \in ChannelCreate(TreeIds, {""}, BOOLEAN) :
          create_channel_call(r, t, "u1", payload)
    \/ \E r \in Reqs : create_channel_fetch_channel(r)
    \/ \E r \in Reqs : create_channel_execute(r)
    \/ \E r \in Reqs, t \in TenantRows, include_private \in BOOLEAN :
          list_channels_call(r, t, include_private)
    \/ \E r \in Reqs : list_channels_fetch(r)

SpecListing == Init /\ [][NextListing]_vars

----------------------------------------------------------------------------
(* Subscription ledger: users of both tenants join and leave the heartbeat *)
(* channel, which may be deleted meanwhile.                                *)

LedgerSteps ==
    \/ \E r \in Reqs : subscribe_to_channel_get_channel_id(r)
    \/ \E r \in Reqs : subscribe_to_channel_execute(r)
    \/ \E r \in Reqs : unsubscribe_from_channel_get_channel_id(r)
    \/ \E r \in Reqs : unsubscribe_from_channel_fetchrow(r)
    \/ \E r \in Reqs : unsubscribe_from_channel_execute(r)
    \/ \E r \in Reqs : delete_channel_fetchrow(r)
    \/ \E r \in Reqs : delete_channel_execute(r)

NextLedger ==
    \/ \E r \in Reqs, t \in TenantRows, u \in Users :
          subscribe_to_channel_call(r, t, "heartbeat", u)
    \/ \E r \in Reqs, t \in TenantRows, u \in Users :
          unsubscribe_from_channel_call(r, t, "heartbeat", u)
    \/ \E r \in Reqs : delete_channel_call(r, DEFAULT_TENANT, "heartbeat")
    \/ LedgerSteps

SpecLedger == Init /\ [][NextLedger]_vars

\* Subscribe calls to the heartbeat channel while the clock advances.
NextLedgerClock ==
    \/ \E r \in Reqs, u \in Users : subscribe_to_channel_call(r, DEFAULT_TENANT, "heartbeat", u)
    \/ \E r \in Reqs : subscribe_to_channel_get_channel_id(r)
    \/ \E r \in Reqs : subscribe_to_channel_execute(r)
    \/ Tick

SpecLedgerClock == Init /\ [][NextLedgerClock]_vars

----------------------------------------------------------------------------
(* Fan-out: one administrator sends, one request after the other, over a   *)
(* populated store: the tree x <- y <- z of channels of the default tenant *)
(* (y's parent is x, z's parent is y), some subscriptions of u1 and u2 to  *)
(* them, and token rows as earlier register calls left them.  Channel w is *)
(* not stored.                                                              *)

TreeChannels ==
    LET c0 == channels_init
        c1 == Put(c0, "x", Channel("x", DEFAULT_TENANT, "", FALSE))
        c2 == Put(c1, "y", Channel("y", DEFAULT_TENANT, "x", FALSE))
    IN Put(c2, "z", Channel("z", DEFAULT_TENANT, "y", FALSE))

\* The ledger after the subscribe calls of the (user, channel) pairs in S.
SubscriptionRows(S) ==
    [k \in {SubscriptionId(m[1], m[2], DEFAULT_TENANT) : m \in S} |->
        LET m == CHOOSE m \in S : SubscriptionId(m[1], m[2], DEFAULT_TENANT) = k
        IN Subscription(k, DEFAULT_TENANT, m[2], m[1])]

\* The token registry after first register calls carrying the lists in reg
\* (user -> list); a user mapped to no list has no row.
TokenRows(reg) ==
    [k \in {TokenId(u, DEFAULT_TENANT) : u \in DOMAIN reg} |->
        LET u == CHOOSE u \in DOMAIN reg : TokenId(u, DEFAULT_TENANT) = k
        IN Tokens(k, DEFAULT_TENANT, ListToBag(reg[u]))]

Memberships == {<<"u1", "x">>, <<"u1", "y">>, <<"u2", "x">>, <<"u2", "z">>}

Registrations ==
    {reg \in UNION {[us -> {<<>>, <<"a">>, <<"a", "a">>, <<"b">>}] : us \in SUBSET Users} :
        /\ ("u1" \in DOMAIN reg => reg["u1"] \notin {<<>>, <<"b">>})
        /\ ("u2" \in DOMAIN reg => reg["u2"] # <<"a", "a">>)}

InitSend ==
    /\ now = 0
    /\ channels = TreeChannels
    /\ subscriptions \in {SubscriptionRows(S) : S \in SUBSET Memberships}
    /\ tokens \in {TokenRows(reg) : reg \in Registrations}
    /\ notifications = EmptyTable
    /\ pushes = <<>>
    /\ req = [r \in Reqs |-> Idle]
    /\ nextId = 0
    /\ registered = [k \in TokenIds |-> StoredTokens(k)]

SendTargets == {"x", "y", "w"}

SendSteps ==
    \/ send_notification_fetch_subscriptions(1)
    \/ send_notification_fetch_tokens(1)
    \/ send_notification_firebase_send(1)
    \/ send_notification_execute(1)
    \/ send_direct_notifications_fetchrow(1)
    \/ send_direct_notifications_firebase_send(1)
    \/ send_direct_notifications_execute(1)

NextSend ==
    \/ \E payload \in NotificationCreate(SeqsUpTo(SendTargets, MaxTargets), BOOLEAN) :
          send_notifications_call(1, DEFAULT_TENANT, "admin", payload)
    \/ \E payload \in DirectNotificationCreate(Users \cup {""}) :
          send_direct_notifications_call(1, DEFAULT_TENANT, "admin", payload)
    \/ SendSteps

SpecSend == InitSend /\ [][NextSend]_vars

----------------------------------------------------------------------------
(* The heartbeat task beside an administrator who sends to the heartbeat   *)
(* channel, over a store in which u1 and u2 may be subscribed to that      *)
(* channel and may have registered tokens.                                 *)

HeartbeatMembers == {<<"u1", "heartbeat">>, <<"u2", "heartbeat">>}

InitHeartbeat ==
    /\ now = 0
    /\ channels = channels_init
    /\ subscriptions \in {SubscriptionRows(S) : S \in SUBSET HeartbeatMembers}
    /\ tokens \in {TokenRows(reg) : reg \in Registrations}
    /\ notifications = EmptyTable
    /\ pushes = <<>>
    /\ req = [r \in Reqs \cup {HeartbeatTask} |->
                 IF r = HeartbeatTask THEN heartbeats_init ELSE Idle]
    /\ nextId = 0
    /\ registered = [k \in TokenIds |-> StoredTokens(k)]

\* The tasks that run send_notification here: the heartbeat task and the
\* administrator's request.
HeartbeatSenders == {HeartbeatTask, 1}

NextHeartbeat ==
    \/ heartbeats_loop
    \/ \E flag \in BOOLEAN :
          send_notifications_call(1, DEFAULT_TENANT, "admin",
                                  [channel_ids |-> <<"heartbeat">>,
                                   include_child_channels |-> flag])
    \/ \E r \in HeartbeatSenders : send_notification_fetch_subscriptions(r)
    \/ \E r \in HeartbeatSenders : send_notification_fetch_tokens(r)
    \/ \E r \in HeartbeatSenders : send_notification_firebase_send(r)
    \/ \E r \in HeartbeatSenders : send_notification_execute(r)

SpecHeartbeat == InitHeartbeat /\ [][NextHeartbeat]_vars

----------------------------------------------------------------------------
(* Every writing operation of the service, one request after the other     *)
(* beside the heartbeat task, over a store in which u1 follows the         *)
(* heartbeat channel and has registered token a.                           *)

InitStore ==
    /\ now = 0
    /\ channels = channels_init
    /\ subscriptions = SubscriptionRows({<<"u1", "heartbeat">>})
    /\ tokens = TokenRows("u1" :> <<"a">>)
    /\ notifications = EmptyTable
    /\ pushes = <<>>
    /\ req = [r \in Reqs \cup {HeartbeatTask} |->
                 IF r = HeartbeatTask THEN heartbeats_init ELSE Idle]
    /\ nextId = 0
    /\ registered = [k \in TokenIds |-> StoredTokens(k)]

NextStore ==
    \/ heartbeats_loop
    \/ send_notifications_call(1, DEFAULT_TENANT, "admin",
                               [channel_ids |-> <<"heartbeat">>,
                                include_child_channels |-> FALSE])
    \/ send_direct_notifications_call(1, DEFAULT_TENANT, "admin", [user_id |-> "u1"])
    \/ subscribe_to_channel_call(1, DEFAULT_TENANT, "heartbeat", "u1")
    \/ unsubscribe_from_channel_call(1, DEFAULT_TENANT, "heartbeat", "u1")
    \/ save_user_token_call(1, DEFAULT_TENANT, "u1", ListToBag(<<"b">>))
    \/ create_channel_call(1, DEFAULT_TENANT, "admin",
                           [id |-> "x", parent_id |-> "heartbeat", is_private |-> FALSE])
    \/ delete_channel_call(1, DEFAULT_TENANT, "heartbeat")
    \/ \E r \in HeartbeatSenders : send_notification_fetch_subscriptions(r)
    \/ \E r \in HeartbeatSenders : send_notification_fetch_tokens(r)
    \/ \E r \in HeartbeatSenders : send_notification_firebase_send(r)
    \/ \E r \in HeartbeatSenders : send_notification_execute(r)
    \/ send_direct_notifications_fetchrow(1)
    \/ send_direct_notifications_firebase_send(1)
    \/ send_direct_notifications_execute(1)
    \/ subscribe_to_channel_get_channel_id(1)
    \/ subscribe_to_channel_execute(1)
    \/ unsubscribe_from_channel_get_channel_id(1)
    \/ unsubscribe_from_channel_fetchrow(1)
    \/ unsubscribe_from_channel_execute(1)
    \/ save_user_token_fetchrow(1)
    \/ save_user_token_execute(1)
    \/ create_channel_fetch_channel(1)
    \/ create_channel_fetch_parent(1)
    \/ create_channel_execute(1)
    \/ delete_channel_fetchrow(1)
    \/ delete_channel_execute(1)

SpecStore == InitStore /\ [][NextStore]_vars

----------------------------------------------------------------------------
(* Channel deletes, concurrent, over the populated store of the fan-out,   *)
(* with the record of an earlier send to x in table notifications.         *)

\* asdict(msg) as send_notification stored it.
NotificationRow(id, tenant, channel, sent_by, sent_at) ==
    [id |-> id, tenant_id |-> tenant, channel_id |-> channel, sent_by |-> sent_by,
     sent_at |-> sent_at]

InitDelete ==
    /\ now = 0
    /\ channels = TreeChannels
    /\ subscriptions \in {SubscriptionRows(S) : S \in SUBSET Memberships}
    /\ tokens = TokenRows([u \in Users |-> <<"a">>])
    /\ notifications = Put(EmptyTable, 1, NotificationRow(1, DEFAULT_TENANT, "x", "admin", 0))
    /\ pushes = <<>>
    /\ req = [r \in Reqs |-> Idle]
    /\ nextId = 1
    /\ registered = [k \in TokenIds |-> StoredTokens(k)]

NextDelete ==
    \/ \E r \in Reqs, c \in ChannelIds \cup {"w"} : delete_channel_call(r, DEFAULT_TENANT, c)
    \/ \E r \in Reqs : delete_channel_fetchrow(r)
    \/ \E r \in Reqs : delete_channel_execute(r)

SpecDelete == InitDelete /\ [][NextDelete]_vars

----------------------------------------------------------------------------
(* History reads, one after the other, over the channels and subscriptions *)
(* of the fan-out and the records earlier sends left: to x at time 0, to y *)
(* at time 1, to x at time 2, a direct one to u2 at time 2, and one of     *)
(* tenant t2 addressed to x.                                               *)

SentNotifications ==
    LET n1 == Put(EmptyTable, 1, NotificationRow(1, DEFAULT_TENANT, "x", "admin", 0))
        n2 == Put(n1, 2, NotificationRow(2, DEFAULT_TENANT, "y", "admin", MaxTime - 1))
        n3 == Put(n2, 3, NotificationRow(3, DEFAULT_TENANT, "x", "admin", MaxTime))
        n4 == Put(n3, 4, NotificationRow(4, DEFAULT_TENANT, "u2", "admin", MaxTime))
    IN Put(n4, 5, NotificationRow(5, "t2", "x", "admin", MaxTime - 1))

InitHistory ==
    /\ now = MaxTime
    /\ channels = TreeChannels
    /\ subscriptions \in {SubscriptionRows(S) : S \in SUBSET Memberships}
    /\ tokens = TokenRows([u \in Users |-> <<"a">>])
    /\ notifications = SentNotifications
    /\ pushes = <<>>
    /\ req = [r \in Reqs |-> Idle]
    /\ nextId = Cardinality(DOMAIN SentNotifications)
    /\ registered = [k \in TokenIds |-> StoredTokens(k)]

NextHistory ==
    \/ \E t \in TenantRows, u \in Users, cs \in SeqsUpTo({"x", "y"}, MaxTargets),
          limit \in 1..MaxLimit :
          list_notifications_call(1, t, u, cs, limit)
    \/ list_notifications_fetch_subscriptions(1)
    \/ list_notifications_fetch(1)

SpecHistory == InitHistory /\ [][NextHistory]_vars

----------------------------------------------------------------------------
(* Properties of the token registry *)

\* C1: when register calls for one (user, tenant) run concurrently, no update
\* is lost: once every call has returned, each token a call carried is in the
\* stored set (two calls carrying {a} and {b} leave {a,b}).
C1_NoLostUpdate ==
    Quiescent => \A k \in TokenIds : registered[k] \subseteq StoredTokens(k)

\* C2: after any sequence of non-overlapping register calls the stored token
\* set of every (user, tenant) is exactly the union of the incoming sets.
C2_SetUnion ==
    Quiescent => \A k \in TokenIds : StoredTokens(k) = registered[k]

\* Calls carrying at most MaxPayload tokens each have merged into a stored
\* set larger than any one of them.
C2_Witness ==
    /\ Quiescent
    /\ \E k \in TokenIds :
          /\ k \in DOMAIN tokens
          /\ Cardinality(StoredTokens(k)) > MaxPayload
          /\ StoredTokens(k) = registered[k]

----------------------------------------------------------------------------
(* Properties of the channel directory *)

\* The stored channels that are parents of the channels in S.
ParentsOf(S) == {channels[c].parent_id : c \in S \cap DOMAIN channels} \cap DOMAIN channels

\* The stored channels reached from S by one to n parent_id references.
RECURSIVE AncestorsWithin(_, _)
AncestorsWithin(S, n) ==
    IF n = 0 THEN {} ELSE ParentsOf(S) \cup AncestorsWithin(ParentsOf(S), n - 1)

Ancestors(c) == AncestorsWithin({c}, Cardinality(DOMAIN channels))

\* C4: the parent relation over the stored channels is acyclic: no channel is
\* its own parent and no chain of parent_id references leads back to its start.
C4_ParentRelationAcyclic == \A c \in DOMAIN channels : c \notin Ancestors(c)

----------------------------------------------------------------------------
(* Properties of the subscription ledger *)

\* C3: subscribe is idempotent: the ledger never holds two records for one
\* (user, channel, tenant), and a subscribe that reaches its insert, on a new
\* or on an existing membership, answers 201 and leaves exactly one record
\* for its (user, channel, tenant).
C3_SubscribeIdempotent ==
    [][/\ \A k \in DOMAIN subscriptions' :
             SelectSubscription(subscriptions', subscriptions'[k].tenant_id,
                                subscriptions'[k].channel_id, subscriptions'[k].user_id) = {k}
       /\ \A r \in Reqs :
             subscribe_to_channel_execute(r) =>
                /\ req'[r].result = HTTP_201_CREATED
                /\ Cardinality(SelectSubscription(subscriptions', req[r].data.tenant_id,
                                                  req[r].data.channel_id,
                                                  req[r].data.user_id)) = 1]_vars

\* Two subscribe calls with the same arguments have both returned, the second
\* one on the membership the first one stored.
C3_Witness ==
    \E r1, r2 \in Reqs :
        /\ r1 # r2
        /\ req[r1].op = "subscribe" /\ req[r1].pc = "done" /\ req[r1].result = HTTP_201_CREATED
        /\ req[r2].op = "subscribe" /\ req[r2].pc = "done" /\ req[r2].result = HTTP_201_CREATED
        /\ req[r1].returned.id = req[r2].returned.id
        /\ req[r1].returned.id \in DOMAIN subscriptions
        /\ Cardinality(DOMAIN subscriptions) = 1

----------------------------------------------------------------------------
(* Properties of the fan-out dispatcher.  They are stated on a request     *)
(* that has ended; its frame req[r] still holds its payload and the        *)
(* Notification objects it built.  In SpecSend the channels, subscriptions *)
(* and token rows do not change while a request runs.                      *)

Ended(r, op) == req[r].op = op /\ req[r].pc = "done"

\* The ids of the Notification objects request r built.
BuiltIds(r) == {req[r].built[j].id : j \in 1..Len(req[r].built)}

\* The push invocations request r made (positions in the history).
PushesOf(r) == {j \in 1..Len(pushes) : pushes[j].msg \in BuiltIds(r)}

\* The device tokens request r handed to the push capability.
PushedTokens(r) == UNION {set(pushes[j].tokens) : j \in PushesOf(r)}

\* The stored channels whose parent_id is in S.
ChildrenOf(S) == {c \in DOMAIN channels : channels[c].parent_id \in S}

\* S with the channels reached from it by up to n child steps.
RECURSIVE DescendantsWithin(_, _)
DescendantsWithin(S, n) ==
    IF n = 0 THEN S ELSE S \cup DescendantsWithin(ChildrenOf(S), n - 1)

\* The descendant closure of the channels in S, S included.
DescendantClosure(S) == DescendantsWithin(S, Cardinality(DOMAIN channels))

\* The users subscribed, in the tenant, to a channel of S.
SubscribersOf(tenant, S) ==
    {subscriptions[k].user_id : k \in {k \in DOMAIN subscriptions :
                                          /\ subscriptions[k].tenant_id = tenant
                                          /\ subscriptions[k].channel_id \in S}}

\* The device tokens registered, in the tenant, by the users in U.
TokensOfUsers(tenant, U) == UNION {StoredTokens(TokenId(u, tenant)) : u \in U}

\* C5: a channel send that succeeded has persisted exactly one
\* NotificationRecord for each target channel of its list, also for a target
\* whose resolved token set is empty.
C5_RecordPerTargetChannel ==
    \A r \in Reqs :
        (Ended(r, "send") /\ req[r].result = HTTP_202_ACCEPTED) =>
            \A j \in 1..Len(req[r].payload.channel_ids) :
                /\ j <= Len(req[r].built)
                /\ req[r].built[j].id \in DOMAIN notifications
                /\ notifications[req[r].built[j].id].channel_id = req[r].payload.channel_ids[j]

\* C6: a send with a target channel that does not exist has failed with 404,
\* has invoked the push capability for no channel and has written no record.
C6_MissingChannelFailsWholeSend ==
    \A r \in Reqs :
        (/\ Ended(r, "send")
         /\ \E j \in 1..Len(req[r].payload.channel_ids) :
               req[r].payload.channel_ids[j] \notin DOMAIN channels) =>
            /\ req[r].result = HTTP_404_NOT_FOUND
            /\ PushesOf(r) = {}
            /\ BuiltIds(r) \cap DOMAIN notifications = {}

\* C7: a channel or direct send whose push invocation failed (the provider
\* raised, or rejected tokens) has succeeded all the same and the
\* NotificationRecord of the failed push is stored.
C7_PushFailureSwallowed ==
    \A r \in Reqs :
        (Ended(r, "send") \/ Ended(r, "direct")) =>
            \A j \in PushesOf(r) :
                pushes[j].outcome # "delivered" =>
                    /\ req[r].result = HTTP_202_ACCEPTED
                    /\ pushes[j].msg \in DOMAIN notifications

\* C8: a send that succeeded has handed to the push capability, with
\* include_child_channels, the tokens of the subscribers of its target
\* channels and of all their descendants, and without it the tokens of the
\* direct subscribers of its target channels only.
C8_DescendantsIncluded ==
    \A r \in Reqs :
        (Ended(r, "send") /\ req[r].result = HTTP_202_ACCEPTED) =>
            LET targets == Range(req[r].payload.channel_ids)
                reached == IF req[r].payload.include_child_channels
                           THEN DescendantClosure(targets)
                           ELSE targets
            IN PushedTokens(r) = TokensOfUsers(req[r].tenant, SubscribersOf(req[r].tenant, reached))

\* C9: one send request invokes the push capability at most once.
C9_OnePushPerSend ==
    \A r \in Reqs : Ended(r, "send") => Cardinality(PushesOf(r)) <= 1

\* C10: no token batch handed to the push capability holds a device token
\* more than once.
C10_BatchHasNoDuplicates ==
    \A j \in 1..Len(pushes) :
        \A t \in set(pushes[j].tokens) : CopiesIn(t, pushes[j].tokens) = 1

\* C11: a direct send to a user without a token record, or with an empty
\* one, answers 428 at its token lookup, has built no Notification (so has
\* invoked the push capability for none and stored none), and no step of it
\* up to that answer changes a table or the push history.
C11_DirectSendNeedsTokens ==
    [][\A r \in Reqs :
          /\ (/\ req[r].op = "direct" /\ req[r].pc = "fetchrow" /\ req'[r] # req[r]
              /\ StoredTokens(TokenId(req[r].payload.user_id, req[r].tenant)) = {}) =>
                 /\ req'[r].pc = "done"
                 /\ req'[r].result = HTTP_428_PRECONDITION_REQUIRED
                 /\ req'[r].built = <<>>
          /\ (/\ req'[r] # req[r] /\ req'[r].op = "direct"
              /\ \/ req'[r].pc = "fetchrow"
                 \/ req'[r].pc = "done" /\ req'[r].result = HTTP_428_PRECONDITION_REQUIRED) =>
                 UNCHANGED <<channels, subscriptions, tokens, notifications, pushes>>]_vars

\* A direct send to a user without a token record has answered 428 while
\* the record and the push of an earlier send are still there.
C11_Witness ==
    /\ Ended(1, "direct")
    /\ req[1].result = HTTP_428_PRECONDITION_REQUIRED
    /\ req[1].payload.user_id \in Users
    /\ TokenId(req[1].payload.user_id, DEFAULT_TENANT) \notin DOMAIN tokens
    /\ notifications # EmptyTable
    /\ pushes # <<>>

----------------------------------------------------------------------------
(* Frame properties of the token registry *)

\* C12: a register call that finds its incoming tokens to be a subset of the
\* stored ones returns at once and writes nothing: table tokens, and so the
\* stored record with its updated_at, is the same after the step.
C12_SubsetRegisterWritesNothing ==
    [][\A r \in Reqs :
          (/\ req[r].op = "register" /\ req[r].pc = "fetchrow" /\ req'[r] # req[r]
           /\ req[r].data.id \in DOMAIN tokens
           /\ set(req[r].payload) \subseteq StoredTokens(req[r].data.id)) =>
              /\ req'[r].pc = "done"
              /\ req'[r].result = HTTP_201_CREATED
              /\ tokens' = tokens]_vars

\* A register call made after the clock advanced has returned on a subset:
\* the stored record is the one it read, with the earlier updated_at.
C12_Witness ==
    \E r \in Reqs :
        /\ Ended(r, "register")
        /\ "row" \in DOMAIN req[r]
        /\ req[r].row.updated_at < now
        /\ TokenId("u1", DEFAULT_TENANT) \in DOMAIN tokens
        /\ tokens[TokenId("u1", DEFAULT_TENANT)].device_tokens # EmptyBag
        /\ tokens[TokenId("u1", DEFAULT_TENANT)].updated_at = req[r].row.updated_at

----------------------------------------------------------------------------
(* Frame properties of the subscription ledger *)

\* The ledger S holds a membership of the user in the channel of the tenant.
IsMember(S, tenant, channel, uid) ==
    \E k \in DOMAIN S : /\ S[k].tenant_id = tenant
                        /\ S[k].channel_id = channel
                        /\ S[k].user_id = uid

\* C13: an unsubscribe that looks up a membership that does not exist
\* answers 404, and no step of an unsubscribe other than the one that
\* answers 204 changes the ledger.
C13_UnsubscribeAbsentNotFound ==
    [][\A r \in Reqs :
          /\ (/\ req[r].op = "unsubscribe" /\ req[r].pc = "fetchrow" /\ req'[r] # req[r]
              /\ ~IsMember(subscriptions, req[r].tenant, req[r].channel, req[r].user)) =>
                 /\ req'[r].pc = "done"
                 /\ req'[r].result = HTTP_404_NOT_FOUND
          /\ (/\ req'[r] # req[r] /\ req'[r].op = "unsubscribe"
              /\ ~(req'[r].pc = "done" /\ req'[r].result = HTTP_204_NO_CONTENT)) =>
                 subscriptions' = subscriptions]_vars

\* An unsubscribe of a stored channel has answered 404, which only the
\* lookup of the membership does, and the memberships of others are stored.
C13_Witness ==
    \E r \in Reqs :
        /\ Ended(r, "unsubscribe")
        /\ req[r].result = HTTP_404_NOT_FOUND
        /\ "heartbeat" \in DOMAIN channels
        /\ Cardinality(DOMAIN subscriptions) >= 2

\* C14: an unsubscribe of a membership that exists does not fail, and when it
\* returns it has removed exactly the record of that membership, also when
\* the channel has been deleted since the user subscribed.
C14_UnsubscribeMemberSucceeds ==
    [][\A r \in Reqs :
          LET f == IF req[r].pc = "execute"
                   THEN [tenant |-> req[r].row.tenant_id, channel |-> req[r].row.channel_id,
                         user |-> req[r].row.user_id]
                   ELSE req[r]
          IN
          (/\ req[r].op = "unsubscribe" /\ InFlight(r) /\ req'[r].pc = "done"
           /\ IsMember(subscriptions, f.tenant, f.channel, f.user)) =>
              /\ req'[r].result = HTTP_204_NO_CONTENT
              /\ ~IsMember(subscriptions', f.tenant, f.channel, f.user)
              /\ Cardinality(DOMAIN subscriptions') = Cardinality(DOMAIN subscriptions) - 1
              /\ \A k \in DOMAIN subscriptions' :
                     k \in DOMAIN subscriptions /\ subscriptions'[k] = subscriptions[k]]_vars

----------------------------------------------------------------------------
(* Frame properties of the channel directory *)

\* C15: a create that, at its check of the id or at its insert, finds the id
\* stored already (whatever the tenant of the stored channel) answers 409 and
\* leaves the directory unchanged; so does the loser of two concurrent
\* creates of one id.
C15_CreateExistingIdConflicts ==
    [][\A r \in Reqs :
          LET id == IF req[r].pc = "execute" THEN req[r].data.id ELSE req[r].payload.id
          IN (/\ req[r].op = "create" /\ req[r].pc \in {"fetch_channel", "execute"}
              /\ req'[r].pc = "done"
              /\ id \in DOMAIN channels) =>
                 /\ req'[r].result = HTTP_409_CONFLICT
                 /\ channels' = channels]_vars

\* C16: the steps of a delete change nothing but the record of the channel
\* it names: every other channel record stays as it is (a child keeps its
\* parent_id), and so do the subscriptions, token rows and notification
\* records; a delete that finds the channel absent answers 404 and changes
\* nothing, one that answers 204 has removed the channel.
C16_DeleteRemovesOnlyTheChannel ==
    [][\A r \in Reqs :
          (req[r].op = "delete" /\ InFlight(r) /\ req'[r] # req[r]) =>
             /\ UNCHANGED <<subscriptions, tokens, notifications>>
             /\ DOMAIN channels \ {req[r].channel_id} \subseteq DOMAIN channels'
             /\ DOMAIN channels' \subseteq DOMAIN channels
             /\ \A c \in DOMAIN channels' : channels'[c] = channels[c]
             /\ (req[r].pc = "fetchrow" /\ req[r].channel_id \notin DOMAIN channels) =>
                    /\ req'[r].pc = "done" /\ req'[r].result = HTTP_404_NOT_FOUND
                    /\ channels' = channels
             /\ (req'[r].pc = "done" /\ req'[r].result = HTTP_204_NO_CONTENT) =>
                    req[r].channel_id \notin DOMAIN channels'
             /\ (req'[r].pc = "done" /\ req'[r].result # HTTP_204_NO_CONTENT) =>
                    channels' = channels]_vars

\* Channel x has been deleted: its child y still names it as parent, the
\* subscriptions to x and the record of the send to x are still stored.
C16_Witness ==
    /\ \E r \in Reqs : Ended(r, "delete") /\ req[r].result = HTTP_204_NO_CONTENT
    /\ "x" \notin DOMAIN channels
    /\ "y" \in DOMAIN channels /\ channels["y"].parent_id = "x"
    /\ \E k \in DOMAIN subscriptions : subscriptions[k].channel_id = "x"
    /\ \E k \in DOMAIN notifications : notifications[k].channel_id = "x"
    /\ tokens # EmptyTable

----------------------------------------------------------------------------
(* Properties of the history reader.  In SpecHistory the ledger and the    *)
(* notification records do not change while a request runs.                *)

\* C17: every record a history request returned has the tenant of the
\* request and is addressed to a channel its user is subscribed to in that
\* tenant, or to the user's own id.
C17_HistoryOnlyFollowedChannels ==
    \A r \in Reqs :
        (Ended(r, "list") /\ req[r].result = HTTP_200_OK) =>
            \A i \in 1..Len(req[r].returned) :
                /\ req[r].returned[i].tenant_id = req[r].tenant
                /\ \/ req[r].returned[i].channel_id = req[r].user
                   \/ IsMember(subscriptions, req[r].tenant, req[r].returned[i].channel_id,
                               req[r].user)

\* The channel ids a history request filters on: the ones it named, or the
\* channels its user is subscribed to in the tenant, and the user's own id.
RequestedChannels(r) ==
    (IF req[r].channel # <<>>
     THEN Range(req[r].channel)
     ELSE {subscriptions[k].channel_id :
              k \in {k \in DOMAIN subscriptions : /\ subscriptions[k].tenant_id = req[r].tenant
                                                  /\ subscriptions[k].user_id = req[r].user}})
    \cup {req[r].user}

\* C18: a history request returned at most `limit` records, each a different
\* stored record matching the request, newest first, and no matching record
\* it left out is more recent than one it returned; it returned fewer than
\* `limit` only if there are no more.
C18_HistoryNewestFirstWithinLimit ==
    \A r \in Reqs :
        (Ended(r, "list") /\ req[r].result = HTTP_200_OK) =>
            LET out == req[r].returned
                matching == {k \in DOMAIN notifications :
                                /\ notifications[k].tenant_id = req[r].tenant
                                /\ notifications[k].channel_id \in RequestedChannels(r)}
            IN /\ Len(out) <= req[r].limit
               /\ Len(out) = req[r].limit \/ Len(out) = Cardinality(matching)
               /\ \A i \in 1..Len(out) : out[i].id \in matching /\ notifications[out[i].id] = out[i]
               /\ \A i, j \in 1..Len(out) : i < j => out[i].id # out[j].id
               /\ \A i, j \in 1..Len(out) : i < j => out[i].sent_at >= out[j].sent_at
               /\ \A k \in matching \ {out[i].id : i \in 1..Len(out)} :
                      \A i \in 1..Len(out) : notifications[k].sent_at <= out[i].sent_at

\* u1 follows x and y, to which three notifications went at times 0, 1 and
\* 2; the request with limit 2 returned the ones of times 2 and 1, in that
\* order.
C18_Witness ==
    /\ Ended(1, "list")
    /\ req[1].user = "u1" /\ req[1].tenant = DEFAULT_TENANT
    /\ req[1].channel = <<>> /\ req[1].limit = 2
    /\ IsMember(subscriptions, DEFAULT_TENANT, "x", "u1")
    /\ IsMember(subscriptions, DEFAULT_TENANT, "y", "u1")
    /\ req[1].returned = <<notifications[3], notifications[2]>>

----------------------------------------------------------------------------
(* Properties of the channel listing *)

\* C19: a listing returns the channels of its tenant, and with
\* include_private = false only those that are not private: exactly the
\* stored channels of the tenant that are public or asked for.
C19_ListingHidesPrivateChannels ==
    [][\A r \in Reqs :
          (req[r].op = "list_channels" /\ req[r].pc = "fetch" /\ req'[r].pc = "done") =>
             req'[r].returned =
                {channels[c] : c \in {c \in DOMAIN channels :
                                         /\ channels[c].tenant_id = req[r].tenant
                                         /\ req[r].include_private \/ ~channels[c].is_private}}]_vars

----------------------------------------------------------------------------
(* Further properties of the token registry *)

\* C21: no stored token record holds the same device token twice.
C21_StoredTokensAreASet ==
    \A k \in DOMAIN tokens :
        \A t \in set(tokens[k].device_tokens) : CopiesIn(t, tokens[k].device_tokens) = 1

----------------------------------------------------------------------------
(* Further properties of the channel directory *)

\* C22: a create that finds its parent absent answers 404 and stores
\* nothing, and the step of a create that stores the channel stores it with
\* no parent_id or with one that names a channel stored at that moment.
C22_ParentStoredAtInsert ==
    [][\A r \in Reqs :
          /\ (/\ req[r].op = "create" /\ req[r].pc = "fetch_parent" /\ req'[r] # req[r]
              /\ req[r].payload.parent_id \notin DOMAIN channels) =>
                 /\ req'[r].pc = "done" /\ req'[r].result = HTTP_404_NOT_FOUND
                 /\ channels' = channels
          /\ (/\ req[r].op = "create" /\ req[r].pc = "execute" /\ req'[r] # req[r]
              /\ channels' # channels) =>
                 \/ req[r].data.parent_id = ""
                 \/ req[r].data.parent_id \in DOMAIN channels]_vars

----------------------------------------------------------------------------
(* Further properties of the subscription ledger *)

\* C23: the record a subscribe call returned is the stored record of its
\* (user, channel, tenant), with the stored id and created_at, also when the
\* membership existed before the call.
C23_SubscribeReturnsStoredRecord ==
    \A r \in Reqs :
        (Ended(r, "subscribe") /\ req[r].result = HTTP_201_CREATED) =>
            /\ req[r].returned.id \in DOMAIN subscriptions
            /\ req[r].returned = subscriptions[req[r].returned.id]

----------------------------------------------------------------------------
(* Properties of the heartbeat loop.  In SpecHeartbeat the subscriptions   *)
(* and token rows do not change.                                            *)

\* The heartbeats whose send_notification call is over.
HeartbeatsSent ==
    LET f == req[HeartbeatTask]
    IN {f.built[j] : j \in 1..(IF f.pc \in {"sleep", "done"} THEN Len(f.built)
                                                             ELSE Len(f.built) - 1)}

\* C25: a send made with save=False stores no NotificationRecord, whatever
\* the token set is: no heartbeat is in table notifications; and it has
\* invoked the push capability, with the tokens of the subscribers of the
\* heartbeat channel, exactly when that token set is not empty.
C25_HeartbeatNeverStored ==
    LET toks == TokensOfUsers(DEFAULT_TENANT, SubscribersOf(DEFAULT_TENANT, {"heartbeat"}))
    IN /\ \A k \in DOMAIN notifications : notifications[k].sent_by # "Heartbeat loop"
       /\ \A j \in 1..Len(req[HeartbeatTask].built) :
              req[HeartbeatTask].built[j].id \notin DOMAIN notifications
       /\ \A msg \in HeartbeatsSent :
              /\ toks # {} => \E j \in 1..Len(pushes) :
                                 pushes[j].msg = msg.id /\ set(pushes[j].tokens) = toks
              /\ toks = {} => \A j \in 1..Len(pushes) : pushes[j].msg # msg.id

\* A heartbeat has been pushed and the loop sleeps again; table
\* notifications holds the record of the administrator's send and none of
\* the heartbeat.
C25_Witness ==
    /\ req[HeartbeatTask].pc = "sleep"
    /\ \E msg \in HeartbeatsSent :
          /\ \E j \in 1..Len(pushes) : pushes[j].msg = msg.id
          /\ msg.id \notin DOMAIN notifications
    /\ notifications # EmptyTable

\* C26: the heartbeat loop never stops: after a heartbeat send that failed
\* (its push raised) the task is still in its loop, asleep or sending, so
\* later heartbeats follow.
C26_HeartbeatLoopSurvivesFailure ==
    (\E j \in 1..Len(pushes) :
        /\ pushes[j].outcome = "raised"
        /\ pushes[j].msg \in BuiltIds(HeartbeatTask)) =>
            req[HeartbeatTask].pc # "done"

\* C27: tenant isolation of the ledger: a Subscription, when it is stored,
\* carries the tenant_id of the channel it references, so no user acting in
\* tenant T is subscribed under T to a channel of another tenant.
C27_SubscriptionTenantIsChannelTenant ==
    [][\A k \in DOMAIN subscriptions' \ DOMAIN subscriptions :
          subscriptions'[k].channel_id \in DOMAIN channels =>
              channels[subscriptions'[k].channel_id].tenant_id = subscriptions'[k].tenant_id]_vars

\* C24: NotificationRecords are write-once: no step of any operation (send,
\* direct send, heartbeat, subscribe, unsubscribe, register, channel create
\* or delete) changes or removes a stored record; the table only grows.
C24_NotificationRecordsWriteOnce ==
    [][\A k \in DOMAIN notifications :
          /\ k \in DOMAIN notifications'
          /\ notifications'[k] = notifications[k]]_vars

\* Two records are stored, so a record was in the table while a later send
\* stored its own, and the records outlive the channel they name, the
\* subscription of u1 and the token list u1 had: the heartbeat channel is
\* deleted, u1 has unsubscribed and has registered token b.
C24_Witness ==
    /\ Cardinality(DOMAIN notifications) >= 2
    /\ \E k \in DOMAIN notifications : notifications[k].channel_id = "heartbeat"
    /\ "heartbeat" \notin DOMAIN channels
    /\ SubscriptionId("u1", "heartbeat", DEFAULT_TENANT) \notin DOMAIN subscriptions
    /\ "b" \in StoredTokens(TokenId("u1", DEFAULT_TENANT))

====
